---- MODULE Spec2Model ----
(***************************************************************************)
(* FinTrack (connect.py): a Streamlit dashboard whose per-session state    *)
(* (st.session_state) holds one user's expenses, income, budget, savings   *)
(* goals and profile, persisted as one document per user in the MongoDB    *)
(* collection db.users when the server is reachable.                       *)
(*                                                                         *)
(* Spec     : one browser session driving the app, one user event per     *)
(*            step; the server may be down and reads and writes may fail.  *)
(* SpecTwo  : two browser sessions against a server that stays reachable.  *)
(* SpecUnit : load_user_data / save_user_data / the budget table called    *)
(*            directly on a session state drawn from bounded sets.         *)
(*                                                                         *)
(* Amounts are whole rupees; the currency sign of the profile is written   *)
(* "Rs".                                                                   *)
(***************************************************************************)
EXTENDS Integers, Sequences, FiniteSets, TLC

VARIABLES users,   \* the collection db.users: user_id -> stored document
          sess,    \* st.session_state of every browser session
          page,    \* value of the navigation selectbox of every session
          event,   \* the user event (or direct call) that produced this state
          view,    \* what the last script run computed for display
          steps    \* number of user events so far

vars == <<users, sess, page, event, view, steps>>

-----------------------------------------------------------------------------
(* Bounds *)

MaxSteps == 6       \* user events per behaviour of Spec
MaxStepsTwo == 8    \* user events per behaviour of SpecTwo
MaxLen == 2         \* rows per DataFrame reached through the add forms
MaxCalls == 2       \* direct calls per behaviour of SpecUnit

-----------------------------------------------------------------------------
(* Values *)

None == <<"None">>          \* Python None; strings are sequences of characters
DB == <<"db">>              \* the handle client[MONGODB_DB_NAME]
Sessions == {"s1", "s2"}
Pages == {"Dashboard", "Add Transaction", "Budget", "Analytics", "Profile"}

\* text typed into the login box
EmailInputs == { <<>>, <<" ">>, <<"a", "@", "b">>, <<" ", "A", "@", "b">>, <<"c", "@", "d">> }

\* calendar dates (year, month, day)
Dates == { <<2024, 1, 5>>, <<2024, 12, 31>> }
Today == <<2024, 1, 5>>

\* the three representations a 'date' cell takes in the program
DateObj(d) == [kind |-> "date", ymd |-> d]           \* datetime.date from st.date_input
Timestamp(d) == [kind |-> "Timestamp", ymd |-> d]    \* pd.Timestamp after pd.to_datetime
Str(s) == [kind |-> "str", str |-> s]                \* str read back from the store

Pad2(n) == IF n < 10 THEN "0" \o ToString(n) ELSE ToString(n)

Pad4(n) == IF n < 10 THEN "000" \o ToString(n)
           ELSE IF n < 100 THEN "00" \o ToString(n)
           ELSE IF n < 1000 THEN "0" \o ToString(n)
           ELSE ToString(n)

\* date.isoformat()
isoformat(d) == Pad4(d[1]) \o "-" \o Pad2(d[2]) \o "-" \o Pad2(d[3])

\* datetime.strftime('%Y-%m-%d') (years of four digits)
strftime(d) == ToString(d[1]) \o "-" \o Pad2(d[2]) \o "-" \o Pad2(d[3])

\* pd.to_datetime on one cell
to_datetime(v) ==
    IF v.kind = "str"
    THEN Timestamp(CHOOSE d \in Dates : isoformat(d) = v.str)
    ELSE Timestamp(v.ymd)

-----------------------------------------------------------------------------
(* st.session_state as a dictionary: a function from the keys present *)

Has(ss, k) == k \in DOMAIN ss

Get(ss, k, default) == IF k \in DOMAIN ss THEN ss[k] ELSE default

Put(ss, k, v) == [x \in (DOMAIN ss) \cup {k} |-> IF x = k THEN v ELSE ss[x]]

EmptyState == [x \in {} |-> None]

AggregateKeys == {"expenses", "income", "budget", "savings_goals", "user_profile"}

-----------------------------------------------------------------------------
(* Strings *)

lower_char(c) == IF c = "A" THEN "a" ELSE IF c = "B" THEN "b"
                 ELSE IF c = "C" THEN "c" ELSE IF c = "D" THEN "d" ELSE c

\* str.lower()
lower(e) == [i \in 1..Len(e) |-> lower_char(e[i])]

\* str.strip()
strip(e) ==
    LET solid == {i \in 1..Len(e) : e[i] # " "}
    IN IF solid = {} THEN <<>>
       ELSE LET lo == CHOOSE i \in solid : \A j \in solid : i <= j
                hi == CHOOSE i \in solid : \A j \in solid : j <= i
            IN SubSeq(e, lo, hi)

\* str.split('@')[0]
split_at_0(e) ==
    LET ats == {i \in 1..Len(e) : e[i] = "@"}
    IN IF ats = {} THEN e
       ELSE SubSeq(e, 1, (CHOOSE i \in ats : \A j \in ats : i <= j) - 1)

\* hash_email: sha256 hex digest, taken as injective
hash_email(email) == <<"sha256">> \o email

-----------------------------------------------------------------------------
(* config.py *)

DEFAULT_BUDGET ==
    [Food |-> 5000, Transportation |-> 3000, Entertainment |-> 2000,
     Shopping |-> 4000, Utilities |-> 2500, Medical |-> 1500,
     Education |-> 2000, Miscellaneous |-> 1000]

DEFAULT_SAVINGS_GOALS ==
    << [name |-> "Emergency Fund", target |-> 50000, current |-> 15000, deadline |-> "2024-12-31"],
       [name |-> "Vacation", target |-> 25000, current |-> 8000, deadline |-> "2024-08-15"] >>

\* the defaults written inline in load_user_data for a document missing a field
LOAD_BUDGET ==
    [Food |-> 5000, Transportation |-> 3000, Entertainment |-> 2000,
     Shopping |-> 4000, Utilities |-> 2500, Medical |-> 1500,
     Education |-> 2000, Miscellaneous |-> 1000]

LOAD_SAVINGS_GOALS ==
    << [name |-> "Emergency Fund", target |-> 50000, current |-> 15000, deadline |-> "2024-12-31"],
       [name |-> "Vacation", target |-> 25000, current |-> 8000, deadline |-> "2024-08-15"] >>

-----------------------------------------------------------------------------
(* DataFrames: a sequence of rows, one record per row *)

EmptyFrame == <<>>

\* df.empty
empty(df) == Len(df) = 0

\* concat with the new row put first
concat_front(df, row) == <<row>> \o df

\* pd.concat([df, new], ignore_index=True)
concat(df, row) == Append(df, row)

\* drop that removes the last row whatever the label
drop_reset_last(df, idx) == SubSeq(df, 1, Len(df) - 1)

\* df.drop(idx, inplace=True); df.reset_index(drop=True, inplace=True)
drop_reset(df, idx) ==
    [j \in 1..(Len(df) - 1) |-> IF j < idx + 1 THEN df[j] ELSE df[j + 1]]

\* the index labels of df.tail(5)
tail5_index(df) == {i \in 0..(Len(df) - 1) : i >= Len(df) - 5}

\* df['date'] = pd.to_datetime(df['date'])
to_datetime_column(df) == [j \in 1..Len(df) |-> [df[j] EXCEPT !.date = to_datetime(df[j].date)]]

RECURSIVE SumAmount(_)
\* df['amount'].sum()
SumAmount(df) == IF Len(df) = 0 THEN 0 ELSE df[1].amount + SumAmount(Tail(df))

-----------------------------------------------------------------------------
(* init_mongodb, authenticate_user *)

\* init_mongodb: up is whether the ping succeeds
init_mongodb(ss, up) ==
    [db |-> IF up THEN DB ELSE None,
     ss |-> Put(ss, "mongodb_available", up)]

\* main, lines 300-304
main_connect(ss, up) ==
    LET r == init_mongodb(ss, up)
    IN [db |-> r.db,
        ss |-> IF r.db # None THEN Put(r.ss, "db_connection", r.db) ELSE r.ss]

\* authenticate_user, lines 40-41
auth_init(ss) == IF ~Has(ss, "user_email") THEN Put(ss, "user_email", None) ELSE ss

\* a Login button that keys the session by the text exactly as typed
login_click_raw(ss, email) ==
    IF email # <<>>
    THEN Put(Put(ss, "user_email", email), "user_id", hash_email(email))
    ELSE ss

\* authenticate_user, lines 46-52: the Login button with the text of the box
login_click(ss, email) ==
    IF email # <<>>
    THEN LET e == strip(lower(email))
         IN Put(Put(ss, "user_email", e), "user_id", hash_email(e))
    ELSE ss

\* a Logout button that clears user_email and user_id and deletes nothing
logout_click_keep(ss) == Put(Put(ss, "user_email", None), "user_id", None)

\* authenticate_user, lines 56-62: the Logout button
logout_click(ss) ==
    LET cleared == Put(Put(ss, "user_email", None), "user_id", None)
    IN [k \in (DOMAIN cleared) \cap {"user_email", "user_id"} |-> cleared[k]]

-----------------------------------------------------------------------------
(* initialize_new_user, load_user_data, save_user_data *)

\* initialize_new_user that takes the whole email as the name
initialize_new_user_fullname(ss, now) ==
    LET email == ss["user_email"]
        profile == [name |-> email,
                    email |-> email,
                    member_since |-> strftime(now),
                    currency |-> "Rs",
                    language |-> "English"]
    IN Put(Put(Put(Put(Put(ss,
         "expenses", EmptyFrame),
         "income", EmptyFrame),
         "budget", DEFAULT_BUDGET),
         "savings_goals", DEFAULT_SAVINGS_GOALS),
         "user_profile", profile)

initialize_new_user(ss, now) ==
    LET email == ss["user_email"]
        profile == [name |-> IF email # None /\ email # <<>> THEN split_at_0(email) ELSE <<"U", "s", "e", "r">>,
                    email |-> email,
                    member_since |-> strftime(now),
                    currency |-> "Rs",
                    language |-> "English"]
    IN Put(Put(Put(Put(Put(ss,
         "expenses", EmptyFrame),
         "income", EmptyFrame),
         "budget", DEFAULT_BUDGET),
         "savings_goals", DEFAULT_SAVINGS_GOALS),
         "user_profile", profile)

\* load_user_data, lines 75-107: the document was found
load_found(ss, user_data, now) ==
    LET email == ss["user_email"]
        profile == [name |-> split_at_0(email),
                    email |-> email,
                    member_since |-> strftime(now),
                    currency |-> "Rs",
                    language |-> "English"]
    IN Put(Put(Put(Put(Put(ss,
         "expenses", Get(user_data, "expenses", EmptyFrame)),
         "income", Get(user_data, "income", EmptyFrame)),
         "budget", Get(user_data, "budget", LOAD_BUDGET)),
         "savings_goals", Get(user_data, "savings_goals", LOAD_SAVINGS_GOALS)),
         "user_profile", Get(user_data, "user_profile", profile))

\* load_user_data that starts from the defaults whenever the server is not available
load_user_data_reset(ss, db, user_id, coll, readFails, now) ==
    IF db # None /\ Get(ss, "mongodb_available", FALSE)
    THEN IF readFails
         THEN (IF ~Has(ss, "expenses") THEN initialize_new_user(ss, now) ELSE ss)
         ELSE IF user_id \in DOMAIN coll
              THEN load_found(ss, coll[user_id], now)
              ELSE initialize_new_user(ss, now)
    ELSE initialize_new_user(ss, now)

\* load_user_data: readFails is whether db.users.find_one raises
load_user_data(ss, db, user_id, coll, readFails, now) ==
    IF db # None /\ Get(ss, "mongodb_available", FALSE)
    THEN IF readFails
         THEN (IF ~Has(ss, "expenses") THEN initialize_new_user(ss, now) ELSE ss)
         ELSE IF user_id \in DOMAIN coll
              THEN load_found(ss, coll[user_id], now)
              ELSE initialize_new_user(ss, now)
    ELSE IF ~Has(ss, "expenses") THEN initialize_new_user(ss, now) ELSE ss

\* date conversion that does not pad month and day
date_to_string_unpadded(v) ==
    IF v.kind = "str" THEN v
    ELSE Str(ToString(v.ymd[1]) \o "-" \o ToString(v.ymd[2]) \o "-" \o ToString(v.ymd[3]))

\* save_user_data, lines 132-145: one 'date' cell of the records to store
date_to_string(v) ==
    IF v.kind = "Timestamp" THEN Str(strftime(v.ymd))
    ELSE IF v.kind = "date" THEN Str(isoformat(v.ymd))
    ELSE v

\* save_user_data, lines 128-145: df.to_dict('records') with the dates as strings
records(df) == [j \in 1..Len(df) |-> [df[j] EXCEPT !.date = date_to_string(df[j].date)]]

\* save_user_data, lines 149-158
user_document(ss, user_id, now) ==
    [user_id |-> user_id,
     email |-> ss["user_email"],
     expenses |-> records(ss["expenses"]),
     income |-> records(ss["income"]),
     budget |-> ss["budget"],
     savings_goals |-> ss["savings_goals"],
     user_profile |-> ss["user_profile"],
     last_updated |-> now]

\* a write that inserts a missing document and never replaces an existing one
insert_if_absent(coll, user_id, user_data) ==
    [k \in (DOMAIN coll) \cup {user_id} |-> IF k \in DOMAIN coll THEN coll[k] ELSE user_data]

\* db.users.replace_one({"user_id": user_id}, user_data, upsert=True)
replace_one(coll, user_id, user_data) ==
    [k \in (DOMAIN coll) \cup {user_id} |-> IF k = user_id THEN user_data ELSE coll[k]]

\* save_user_data that reports a failed write to its caller
save_user_data_reporting(ss, db, user_id, coll, writeFails, now) ==
    IF ~Has(ss, "expenses") \/ ~Has(ss, "income")
    THEN [ret |-> FALSE, raised |-> FALSE, wrote |-> "failed", coll |-> coll, ss |-> ss]
    ELSE IF db # None /\ Get(ss, "mongodb_available", FALSE)
    THEN IF writeFails
         THEN [ret |-> FALSE, raised |-> FALSE, wrote |-> "failed", coll |-> coll, ss |-> ss]
         ELSE [ret |-> TRUE, raised |-> FALSE, wrote |-> "written",
               coll |-> replace_one(coll, user_id, user_document(ss, user_id, now)), ss |-> ss]
    ELSE [ret |-> TRUE, raised |-> FALSE, wrote |-> "skipped", coll |-> coll, ss |-> ss]

\* save_user_data: writeFails is whether replace_one raises; an exception anywhere in
\* the try block (a frame missing from session_state, the write) ends in 'return True'
save_user_data(ss, db, user_id, coll, writeFails, now) ==
    IF ~Has(ss, "expenses") \/ ~Has(ss, "income")
    THEN [ret |-> TRUE, raised |-> FALSE, wrote |-> "failed", coll |-> coll, ss |-> ss]
    ELSE IF db # None /\ Get(ss, "mongodb_available", FALSE)
    THEN IF writeFails
         THEN [ret |-> TRUE, raised |-> FALSE, wrote |-> "failed", coll |-> coll, ss |-> ss]
         ELSE [ret |-> TRUE, raised |-> FALSE, wrote |-> "written",
               coll |-> replace_one(coll, user_id, user_document(ss, user_id, now)), ss |-> ss]
    ELSE [ret |-> TRUE, raised |-> FALSE, wrote |-> "skipped", coll |-> coll, ss |-> ss]

\* the guarded call the mutating handlers make (lines 242-244, 472-473, 591-592, 706-707)
save_if_available(ss, coll, writeFails, now) ==
    IF Get(ss, "mongodb_available", FALSE) /\ Has(ss, "db_connection")
    THEN save_user_data(ss, ss["db_connection"], ss["user_id"], coll, writeFails, now)
    ELSE [ret |-> None, raised |-> FALSE, wrote |-> "not called", coll |-> coll, ss |-> ss]

-----------------------------------------------------------------------------
(* Helper functions and pages *)

\* add_expense: the row built from the form, appended, then saved
add_expense(ss, date, category, amount, description, coll, writeFails, now) ==
    LET new_expense == [date |-> DateObj(date), category |-> category,
                        amount |-> amount, description |-> description]
        ss1 == Put(ss, "expenses", concat(ss["expenses"], new_expense))
    IN save_if_available(ss1, coll, writeFails, now)

\* add_income that appends and forgets to save
add_income_unsaved(ss, date, source, amount, frequency, coll, writeFails, now) ==
    LET new_income == [date |-> DateObj(date), source |-> source,
                       amount |-> amount, frequency |-> frequency]
    IN [ret |-> None, raised |-> FALSE, wrote |-> "not called", coll |-> coll,
        ss |-> Put(ss, "income", concat(ss["income"], new_income))]

add_income(ss, date, source, amount, frequency, coll, writeFails, now) ==
    LET new_income == [date |-> DateObj(date), source |-> source,
                       amount |-> amount, frequency |-> frequency]
        ss1 == Put(ss, "income", concat(ss["income"], new_income))
    IN save_if_available(ss1, coll, writeFails, now)

\* add_transaction_page, lines 469-473 (kind = "expenses") and 487-491 (kind = "income")
delete_at(ss, kind, idx, coll, writeFails, now) ==
    LET ss1 == Put(ss, kind, drop_reset(ss[kind], idx))
    IN save_if_available(ss1, coll, writeFails, now)

\* get_monthly_data: the frame it leaves behind and the total it returns
get_monthly_data(df) ==
    IF empty(df) THEN [df |-> df, total |-> 0]
    ELSE [df |-> to_datetime_column(df), total |-> SumAmount(to_datetime_column(df))]

\* get_monthly_data applied to st.session_state[key]
monthly(ss, key) == Put(ss, key, get_monthly_data(ss[key]).df)

CategoryOrder ==
    << "Food", "Transportation", "Entertainment", "Shopping",
       "Utilities", "Medical", "Education", "Miscellaneous" >>

RECURSIVE SumCategory(_, _)
SumCategory(df, c) ==
    IF Len(df) = 0 THEN 0
    ELSE (IF df[1].category = c THEN df[1].amount ELSE 0) + SumCategory(Tail(df), c)

\* expenses.groupby('category')['amount'].sum().to_dict()
expenses_by_category(df) ==
    [c \in {df[j].category : j \in 1..Len(df)} |-> SumCategory(df, c)]

\* budget_page, lines 524-533: one row of budget_data
budget_row(category, budget_amount, by_category) ==
    LET spent == IF category \in DOMAIN by_category THEN by_category[category] ELSE 0
    IN [Category |-> category,
        Budget |-> budget_amount,
        Spent |-> spent,
        Remaining |-> budget_amount - spent,
        Usage |-> IF budget_amount > 0 THEN [num |-> spent * 100, den |-> budget_amount]
                  ELSE [num |-> 0, den |-> 1]]

RECURSIVE budget_rows(_, _, _)
budget_rows(order, budget, by_category) ==
    IF Len(order) = 0 THEN <<>>
    ELSE (IF order[1] \in DOMAIN budget
          THEN << budget_row(order[1], budget[order[1]], by_category) >>
          ELSE <<>>) \o budget_rows(Tail(order), budget, by_category)

\* a budget table built from the categories that have expenses
budget_data_spent_only(budget, expenses) ==
    budget_rows(CategoryOrder,
                [c \in (DOMAIN budget) \cap {expenses[j].category : j \in 1..Len(expenses)} |-> budget[c]],
                IF ~empty(expenses) THEN expenses_by_category(expenses) ELSE [c \in {} |-> 0])

\* budget_page, lines 518-535
budget_data(budget, expenses) ==
    budget_rows(CategoryOrder, budget,
                IF ~empty(expenses) THEN expenses_by_category(expenses) ELSE [c \in {} |-> 0])

\* date.toordinal(): days since 0001-01-01, which has ordinal 1
toordinal(d) ==
    LET y == d[1] - 1
        leap == (d[1] % 4 = 0) /\ ((d[1] % 100 # 0) \/ (d[1] % 400 = 0))
        before == <<0, 31, 59, 90, 120, 151, 181, 212, 243, 273, 304, 334>>
    IN y * 365 + (y \div 4) - (y \div 100) + (y \div 400)
       + before[d[2]] + (IF d[2] > 2 /\ leap THEN 1 ELSE 0) + d[3]

\* analytics_page, line 635
day_order == <<"Monday", "Tuesday", "Wednesday", "Thursday", "Friday", "Saturday", "Sunday">>

\* Series.dt.day_name() on one cell of a datetime column
day_name(v) == day_order[((toordinal(v.ymd) + 6) % 7) + 1]

RECURSIVE SumDay(_, _)
SumDay(df, day) ==
    IF Len(df) = 0 THEN 0
    ELSE (IF day_name(to_datetime(df[1].date)) = day THEN df[1].amount ELSE 0) + SumDay(Tail(df), day)

\* analytics_page, lines 632-633: expenses_df.groupby('day_of_week')['amount'].sum()
group_by_day(df) ==
    [day \in {day_name(to_datetime(df[j].date)) : j \in 1..Len(df)} |-> SumDay(df, day)]

\* a reindex that keeps only the days that have data
reindex_present(series, order, fill_value) ==
    SelectSeq([i \in 1..Len(order) |->
                 [day |-> order[i],
                  amount |-> IF order[i] \in DOMAIN series THEN series[order[i]] ELSE fill_value]],
              LAMBDA e : e.day \in DOMAIN series)

\* Series.reindex(day_order, fill_value=0)
reindex(series, order, fill_value) ==
    [i \in 1..Len(order) |->
       [day |-> order[i],
        amount |-> IF order[i] \in DOMAIN series THEN series[order[i]] ELSE fill_value]]

\* analytics_page, lines 632-636
weekly_pattern(expenses) == reindex(group_by_day(expenses), day_order, 0)

\* classification that counts a category spent exactly to its budget as over budget
classify_inclusive(usage) ==
    IF usage.num >= 100 * usage.den THEN "over-budget"
    ELSE IF usage.num > 80 * usage.den THEN "warning"
    ELSE "on-track"

\* budget_page, lines 546-551: st.error / st.warning / st.success chosen from 'Usage %'
classify(usage) ==
    IF usage.num > 100 * usage.den THEN "over-budget"
    ELSE IF usage.num > 80 * usage.den THEN "warning"
    ELSE "on-track"

\* budget_page, lines 538-551: the message shown for every row of the table
budget_status(rows) == [i \in 1..Len(rows) |-> classify(rows[i].Usage)]

\* dashboard_page: get_monthly_data on income, then on expenses
dashboard_page(ss) == monthly(monthly(ss, "income"), "expenses")

\* budget_page up to the Update Budget button
budget_page(ss) == monthly(ss, "expenses")

\* analytics_page: returns early on no data, stops at line 670 when only income exists
analytics_page(ss) ==
    IF empty(ss["expenses"]) THEN ss
    ELSE monthly(monthly(ss, "income"), "expenses")

\* main, lines 330-339: the state the chosen page leaves behind
render(ss, p) ==
    IF p = "Dashboard" THEN dashboard_page(ss)
    ELSE IF p = "Budget" THEN budget_page(ss)
    ELSE IF p = "Analytics" THEN analytics_page(ss)
    ELSE ss

\* what the chosen page computes for display
display(ss, s, p) ==
    IF p = "Budget"
    THEN [s |-> s, page |-> p, budget_data |-> budget_data(ss["budget"], ss["expenses"]),
          status |-> budget_status(budget_data(ss["budget"], ss["expenses"]))]
    ELSE IF p = "Analytics" /\ ~empty(ss["expenses"])
    THEN [s |-> s, page |-> p, weekly_pattern |-> weekly_pattern(ss["expenses"])]
    ELSE [s |-> s, page |-> p]

\* main, lines 300-321 for a logged-in session: connect, then load once
main_logged_in(ss, up, coll, readFails, now) ==
    LET c == main_connect(ss, up)
    IN IF ~Has(c.ss, "data_loaded")
       THEN Put(load_user_data(c.ss, c.db, c.ss["user_id"], coll, readFails, now), "data_loaded", TRUE)
       ELSE c.ss

\* budget_page, lines 562-589: every box keeps its value except the edited one
update_budget(ss, category, amount, coll, writeFails, now) ==
    LET new_budget == [c \in DOMAIN ss["budget"] |-> IF c = category THEN amount ELSE ss["budget"][c]]
        ss1 == Put(ss, "budget", new_budget)
    IN save_if_available(ss1, coll, writeFails, now)

\* update_profile that writes every field of the patch into the profile
update_profile_all_fields(ss, patch, coll, writeFails, now) ==
    LET old == ss["user_profile"]
        ss1 == Put(ss, "user_profile",
                   [f \in DOMAIN old |-> IF f \in DOMAIN patch THEN patch[f] ELSE old[f]])
    IN save_if_available(ss1, coll, writeFails, now)

\* profile_page, lines 698-707: the form has an editable box for the name only
update_profile(ss, patch, coll, writeFails, now) ==
    LET name == IF "name" \in DOMAIN patch THEN patch["name"] ELSE ss["user_profile"].name
        ss1 == Put(ss, "user_profile", [ss["user_profile"] EXCEPT !.name = name])
    IN save_if_available(ss1, coll, writeFails, now)

-----------------------------------------------------------------------------
(* Inputs *)

\* the expense form: date, category, amount, description
ExpenseInputs ==
    { [date |-> <<2024, 1, 5>>, category |-> "Food", amount |-> 250, description |-> ""],
      [date |-> <<2024, 12, 31>>, category |-> "Shopping", amount |-> 1200, description |-> "shoes"] }

\* the income form: date, source, amount, frequency
IncomeInputs ==
    { [date |-> <<2024, 1, 5>>, source |-> "Salary", amount |-> 3000, frequency |-> "Monthly"],
      [date |-> <<2024, 12, 31>>, source |-> "Freelance", amount |-> 500, frequency |-> "One-time"] }

\* the budget form: the box that was edited and its new value
BudgetEdits == { <<"Food", 1000>>, <<"Shopping", 0>> }

\* the profile update asked for: the fields to change
ProfilePatches ==
    { [name |-> <<"Z">>],
      [name |-> <<"Z">>, currency |-> "$"],
      [language |-> "Hindi"] }

\* a document left in the collection by an earlier session of user a@b
EarlierDocument ==
    [user_id |-> hash_email(<<"a", "@", "b">>),
     email |-> <<"a", "@", "b">>,
     expenses |-> << [date |-> Str("2024-01-05"), category |-> "Food", amount |-> 250, description |-> ""],
                     [date |-> Str("2024-12-31"), category |-> "Food", amount |-> 1200, description |-> "rent"] >>,
     income |-> << [date |-> Str("2024-01-05"), source |-> "Salary", amount |-> 3000, frequency |-> "Monthly"] >>,
     budget |-> [DEFAULT_BUDGET EXCEPT !["Food"] = 1000],
     savings_goals |-> DEFAULT_SAVINGS_GOALS,
     user_profile |-> [name |-> <<"a">>, email |-> <<"a", "@", "b">>, member_since |-> "2024-01-05",
                       currency |-> "Rs", language |-> "English"],
     last_updated |-> <<2024, 1, 5>>]

EmptyCollection == [k \in {} |-> None]

InitialCollections ==
    { EmptyCollection, replace_one(EmptyCollection, EarlierDocument.user_id, EarlierDocument) }

-----------------------------------------------------------------------------
(* Spec: browser sessions; every step is one user event with the script runs it causes *)

LoggedOut(s) == Has(sess[s], "user_email") /\ sess[s]["user_email"] = None

LoggedIn(s) == /\ Has(sess[s], "user_email")
               /\ sess[s]["user_email"] # None
               /\ Has(sess[s], "data_loaded")

NoView == [s |-> "none", page |-> "none"]

Init ==
    /\ users \in InitialCollections
    /\ sess = [s \in Sessions |-> EmptyState]
    /\ page = [s \in Sessions |-> "none"]
    /\ event = [op |-> "init"]
    /\ view = NoView
    /\ steps = 0

\* the script run that follows st.rerun() in a logged-in session
rerun(ss, up, coll, p) == render(main_logged_in(ss, up, coll, FALSE, Today), p)

\* a script run of a logged-out session with no button pressed: the page is opened or refreshed
Visit(s, env) ==
    /\ steps < env.max
    /\ Get(sess[s], "user_email", None) = None
    /\ \E up \in env.up :
         /\ sess' = [sess EXCEPT ![s] = auth_init(main_connect(sess[s], up).ss)]
         /\ event' = [op |-> "visit", s |-> s, up |-> up]
    /\ page' = [page EXCEPT ![s] = "none"]
    /\ view' = NoView
    /\ steps' = steps + 1
    /\ UNCHANGED users

\* the Login button; a non-empty email reruns the script, which loads and shows the Dashboard
Login(s, env) ==
    /\ steps < env.max
    /\ LoggedOut(s)
    /\ \E up \in env.up, up2 \in env.up, readFails \in env.fails, email \in env.emails, now \in Dates :
         LET run1 == login_click(auth_init(main_connect(sess[s], up).ss), email)
             run2 == render(main_logged_in(run1, up2, users, readFails, now), "Dashboard")
         IN /\ readFails => up2
            /\ IF email # <<>>
               THEN /\ sess' = [sess EXCEPT ![s] = run2]
                    /\ page' = [page EXCEPT ![s] = "Dashboard"]
                    /\ view' = display(run2, s, "Dashboard")
               ELSE /\ sess' = [sess EXCEPT ![s] = run1]
                    /\ UNCHANGED page
                    /\ view' = NoView
            /\ event' = [op |-> "login", s |-> s, up |-> up2, email |-> email,
                         readFails |-> readFails, now |-> now]
    /\ steps' = steps + 1
    /\ UNCHANGED users

\* the Logout button, and the rerun it asks for
Logout(s, env) ==
    /\ steps < env.max
    /\ LoggedIn(s)
    /\ \E up \in env.up, up2 \in env.up :
         LET run1 == logout_click(main_connect(sess[s], up).ss)
             run2 == auth_init(main_connect(run1, up2).ss)
         IN /\ sess' = [sess EXCEPT ![s] = run2]
            /\ event' = [op |-> "logout", s |-> s, up |-> up2]
    /\ page' = [page EXCEPT ![s] = "none"]
    /\ view' = NoView
    /\ steps' = steps + 1
    /\ UNCHANGED users

\* a choice in the navigation selectbox (or any other rerun of a logged-in session)
Select(s, env) ==
    /\ steps < env.max
    /\ LoggedIn(s)
    /\ \E up \in env.up, p \in Pages :
         LET run1 == rerun(sess[s], up, users, p)
         IN /\ sess' = [sess EXCEPT ![s] = run1]
            /\ page' = [page EXCEPT ![s] = p]
            /\ view' = display(run1, s, p)
            /\ event' = [op |-> "select", s |-> s, up |-> up, page |-> p]
    /\ steps' = steps + 1
    /\ UNCHANGED users

\* the result of a handler followed by the rerun it asks for
Handled(s, op, up, up2, writeFails, r, arg) ==
    LET run2 == rerun(r.ss, up2, r.coll, page[s])
    IN /\ writeFails => r.wrote = "failed"
       /\ sess' = [sess EXCEPT ![s] = run2]
       /\ users' = r.coll
       /\ view' = display(run2, s, page[s])
       /\ event' = [op |-> op, s |-> s, up |-> up, wrote |-> r.wrote, ret |-> r.ret,
                    raised |-> r.raised, arg |-> arg]
       /\ steps' = steps + 1
       /\ UNCHANGED page

\* the Add Expense form
AddExpense(s, env) ==
    /\ steps < env.max
    /\ LoggedIn(s)
    /\ page[s] = "Add Transaction"
    /\ Len(sess[s]["expenses"]) < MaxLen
    /\ \E up \in env.up, up2 \in env.up, writeFails \in env.fails, form \in ExpenseInputs :
         LET run1 == rerun(sess[s], up, users, page[s])
         IN Handled(s, "add_expense", up, up2, writeFails,
                    add_expense(run1, form.date, form.category, form.amount, form.description,
                                users, writeFails, Today), form)

\* the Add Income form
AddIncome(s, env) ==
    /\ steps < env.max
    /\ LoggedIn(s)
    /\ page[s] = "Add Transaction"
    /\ Len(sess[s]["income"]) < MaxLen
    /\ \E up \in env.up, up2 \in env.up, writeFails \in env.fails, form \in IncomeInputs :
         LET run1 == rerun(sess[s], up, users, page[s])
         IN Handled(s, "add_income", up, up2, writeFails,
                    add_income(run1, form.date, form.source, form.amount, form.frequency,
                               users, writeFails, Today), form)

\* a Delete Expense button of the recent-transactions list
DeleteExpense(s, env) ==
    /\ steps < env.max
    /\ LoggedIn(s)
    /\ page[s] = "Add Transaction"
    /\ \E up \in env.up, up2 \in env.up, writeFails \in env.fails, idx \in tail5_index(sess[s]["expenses"]) :
         LET run1 == rerun(sess[s], up, users, page[s])
         IN Handled(s, "delete_expense", up, up2, writeFails,
                    delete_at(run1, "expenses", idx, users, writeFails, Today), idx)

\* a Delete Income button of the recent-transactions list
DeleteIncome(s, env) ==
    /\ steps < env.max
    /\ LoggedIn(s)
    /\ page[s] = "Add Transaction"
    /\ \E up \in env.up, up2 \in env.up, writeFails \in env.fails, idx \in tail5_index(sess[s]["income"]) :
         LET run1 == rerun(sess[s], up, users, page[s])
         IN Handled(s, "delete_income", up, up2, writeFails,
                    delete_at(run1, "income", idx, users, writeFails, Today), idx)

\* the Update Budget button
UpdateBudget(s, env) ==
    /\ steps < env.max
    /\ LoggedIn(s)
    /\ page[s] = "Budget"
    /\ \E up \in env.up, up2 \in env.up, writeFails \in env.fails, edit \in BudgetEdits :
         LET run1 == rerun(sess[s], up, users, page[s])
         IN /\ edit[1] \in DOMAIN run1["budget"]
            /\ Handled(s, "update_budget", up, up2, writeFails,
                       update_budget(run1, edit[1], edit[2], users, writeFails, Today), edit)

\* the Update Profile button; this handler asks for no rerun
UpdateProfile(s, env) ==
    /\ steps < env.max
    /\ LoggedIn(s)
    /\ page[s] = "Profile"
    /\ \E up \in env.up, writeFails \in env.fails, patch \in ProfilePatches :
         LET run1 == rerun(sess[s], up, users, page[s])
             r == update_profile(run1, patch, users, writeFails, Today)
         IN /\ writeFails => r.wrote = "failed"
            /\ sess' = [sess EXCEPT ![s] = r.ss]
            /\ users' = r.coll
            /\ view' = display(r.ss, s, page[s])
            /\ event' = [op |-> "update_profile", s |-> s, up |-> up, wrote |-> r.wrote,
                         ret |-> r.ret, raised |-> r.raised, arg |-> patch]
    /\ steps' = steps + 1
    /\ UNCHANGED page

\* one browser session; the server may be down, and reads and writes may fail
OneSession == [up |-> BOOLEAN, fails |-> BOOLEAN, max |-> MaxSteps, emails |-> EmailInputs]

\* two browser sessions against a server that stays reachable; no blank-only login text
TwoSessions == [up |-> {TRUE}, fails |-> {FALSE}, max |-> MaxStepsTwo,
                emails |-> EmailInputs \ {<<" ">>}]

Next ==
    \E s \in {"s1"} :
        \/ Visit(s, OneSession)
        \/ Login(s, OneSession)
        \/ Logout(s, OneSession)
        \/ Select(s, OneSession)
        \/ AddExpense(s, OneSession)
        \/ AddIncome(s, OneSession)
        \/ DeleteExpense(s, OneSession)
        \/ DeleteIncome(s, OneSession)
        \/ UpdateBudget(s, OneSession)
        \/ UpdateProfile(s, OneSession)

Spec == Init /\ [][Next]_vars

NextTwo ==
    \E s \in Sessions :
        \/ Visit(s, TwoSessions)
        \/ Login(s, TwoSessions)
        \/ Logout(s, TwoSessions)
        \/ Select(s, TwoSessions)
        \/ AddExpense(s, TwoSessions)
        \/ AddIncome(s, TwoSessions)
        \/ DeleteExpense(s, TwoSessions)
        \/ DeleteIncome(s, TwoSessions)
        \/ UpdateBudget(s, TwoSessions)
        \/ UpdateProfile(s, TwoSessions)

SpecTwo == Init /\ [][NextTwo]_vars

-----------------------------------------------------------------------------
(* SpecUnit: the data-access functions and the budget table called directly *)

UnitEmail == <<"a", "@", "b">>

\* cells of a 'date' column: fresh from the form, converted by pd.to_datetime, read back
UnitExpenseRows ==
    { [date |-> c, category |-> "Food", amount |-> 250, description |-> ""] :
        c \in {DateObj(<<2024, 1, 5>>), Timestamp(<<2024, 12, 31>>), Str(isoformat(<<2024, 1, 5>>))} }
    \cup { [date |-> DateObj(<<2024, 12, 31>>), category |-> "Shopping", amount |-> 1200,
            description |-> "shoes"],
           [date |-> Timestamp(<<2024, 1, 5>>), category |-> "Food", amount |-> 1200,
            description |-> "rent"] }

UnitIncomeRows ==
    { [date |-> Timestamp(<<2024, 1, 5>>), source |-> "Salary", amount |-> 3000, frequency |-> "Monthly"] }

Frames(rows, n) == UNION { [1..k -> rows] : k \in 0..n }

UnitBudgets ==
    { DEFAULT_BUDGET, [Food |-> 1000], [Food |-> 0, Shopping |-> 1500], [Food |-> 250] }

UnitProfile == [name |-> <<"a">>, email |-> UnitEmail, member_since |-> "2024-01-05",
                currency |-> "Rs", language |-> "English"]

\* a session state as main leaves it before load_user_data: logged in, nothing loaded
UnitLoggedIn(available) ==
    [user_email |-> UnitEmail, user_id |-> hash_email(UnitEmail), mongodb_available |-> available]

\* a session state holding an aggregate
UnitLoaded(available, expenses, income, budget) ==
    [user_email |-> UnitEmail, user_id |-> hash_email(UnitEmail), mongodb_available |-> available,
     expenses |-> expenses, income |-> income, budget |-> budget,
     savings_goals |-> DEFAULT_SAVINGS_GOALS, user_profile |-> UnitProfile]

\* a document that lacks the optional fields
PartialDocument ==
    [user_id |-> hash_email(UnitEmail), email |-> UnitEmail,
     expenses |-> EarlierDocument.expenses]

UnitCollections ==
    InitialCollections \cup { replace_one(EmptyCollection, PartialDocument.user_id, PartialDocument) }

InitUnit ==
    /\ users \in UnitCollections
    /\ \E available \in BOOLEAN :
         \/ sess = [s \in Sessions |-> IF s = "s1" THEN UnitLoggedIn(available) ELSE EmptyState]
         \/ \E expenses \in Frames(UnitExpenseRows, MaxLen), income \in Frames(UnitIncomeRows, 1),
               budget \in UnitBudgets :
              sess = [s \in Sessions |-> IF s = "s1"
                                         THEN UnitLoaded(available, expenses, income, budget)
                                         ELSE EmptyState]
    /\ page = [s \in Sessions |-> "none"]
    /\ event = [op |-> "init"]
    /\ view = NoView
    /\ steps = 0

\* the five parts of the aggregate held in a session state
Aggregate(ss) == [k \in AggregateKeys \cap DOMAIN ss |-> ss[k]]

\* load_user_data(db, user_id)
CallLoad ==
    /\ steps < MaxCalls
    /\ \E db \in {DB, None}, readFails \in BOOLEAN, now \in Dates :
         /\ sess' = [sess EXCEPT !["s1"] =
                       load_user_data(sess["s1"], db, sess["s1"]["user_id"], users, readFails, now)]
         /\ event' = [op |-> "load", s |-> "s1", db |-> db, readFails |-> readFails, now |-> now,
                      had |-> Has(sess["s1"], "expenses"),
                      after_save |-> (event.op = "save" /\ event.wrote = "written"),
                      saved |-> IF event.op = "save" THEN event.agg ELSE EmptyState]
    /\ steps' = steps + 1
    /\ UNCHANGED <<users, page, view>>

\* save_user_data(db, user_id)
CallSave ==
    /\ steps < MaxCalls
    /\ \E db \in {DB, None}, writeFails \in BOOLEAN :
         LET r == save_user_data(sess["s1"], db, sess["s1"]["user_id"], users, writeFails, Today)
         IN /\ writeFails => r.wrote = "failed"
            /\ sess' = [sess EXCEPT !["s1"] = r.ss]
            /\ users' = r.coll
            /\ event' = [op |-> "save", s |-> "s1", db |-> db, wrote |-> r.wrote, ret |-> r.ret,
                         raised |-> r.raised, agg |-> Aggregate(sess["s1"])]
    /\ steps' = steps + 1
    /\ UNCHANGED <<page, view>>

\* budget_page up to the table of budget rows
CallBudgetPage ==
    /\ steps < MaxCalls
    /\ AggregateKeys \subseteq DOMAIN sess["s1"]
    /\ sess' = [sess EXCEPT !["s1"] = budget_page(sess["s1"])]
    /\ view' = display(budget_page(sess["s1"]), "s1", "Budget")
    /\ event' = [op |-> "budget_page", s |-> "s1"]
    /\ steps' = steps + 1
    /\ UNCHANGED <<users, page>>

\* analytics_page
CallAnalyticsPage ==
    /\ steps < MaxCalls
    /\ AggregateKeys \subseteq DOMAIN sess["s1"]
    /\ sess' = [sess EXCEPT !["s1"] = analytics_page(sess["s1"])]
    /\ view' = display(analytics_page(sess["s1"]), "s1", "Analytics")
    /\ event' = [op |-> "analytics_page", s |-> "s1"]
    /\ steps' = steps + 1
    /\ UNCHANGED <<users, page>>

NextUnit == CallLoad \/ CallSave \/ CallBudgetPage \/ CallAnalyticsPage

SpecUnit == InitUnit /\ [][NextUnit]_vars

-----------------------------------------------------------------------------
(* Properties *)

\* a 'date' cell as an ISO calendar-date string
IsoCell(v) == IF v.kind = "str" THEN v.str ELSE isoformat(v.ymd)

IsoFrame(df) == [j \in 1..Len(df) |-> [df[j] EXCEPT !.date = IsoCell(df[j].date)]]

\* the five parts of an aggregate (held in a session state or in a document), dates as ISO strings
IsoAggregate(a) ==
    [expenses |-> IsoFrame(a["expenses"]),
     income |-> IsoFrame(a["income"]),
     budget |-> a["budget"],
     savings_goals |-> a["savings_goals"],
     user_profile |-> a["user_profile"]]

MutatingOps == {"add_expense", "add_income", "delete_expense", "delete_income",
                "update_budget", "update_profile"}

Stored(s) == users[sess[s]["user_id"]]

\* C1: after a mutating operation whose script run reached the server and whose write did not
\* fail, the document stored under the session's user_id holds the same expenses, income,
\* budget, savings goals and profile as the session state (dates as ISO strings).
C1_MutationPersisted ==
    (event.op \in MutatingOps /\ event.up /\ event.wrote # "failed")
        => /\ sess[event.s]["user_id"] \in DOMAIN users
           /\ IsoAggregate(Stored(event.s)) = IsoAggregate(sess[event.s])

C1_Witness ==
    /\ event.op = "add_income"
    /\ event.wrote = "written"
    /\ Len(sess["s1"]["income"]) = 2
    /\ Len(sess["s1"]["expenses"]) = 2
    /\ Len(Stored("s1").income) = 2

\* C2: a load that directly follows a written save, with the same key, the server reachable
\* and the read succeeding, leaves in the session state an aggregate equal to the one saved
\* (dates as ISO strings).
C2_SaveLoadRoundTrip ==
    (event.op = "load" /\ event.after_save /\ event.db = DB /\ ~event.readFails)
        => IsoAggregate(sess["s1"]) = IsoAggregate(event.saved)

C2_Witness ==
    /\ event.op = "load"
    /\ event.after_save
    /\ event.db = DB
    /\ ~event.readFails
    /\ Len(event.saved["expenses"]) = 2
    /\ event.saved["expenses"][1].date.kind = "Timestamp"
    /\ event.saved["expenses"][2].date.kind = "date"
    /\ sess["s1"]["expenses"][1].date.kind = "str"

\* C3: a delete button with index i removes exactly the row at position i of its frame: the
\* frame is one row shorter, rows before i stay, rows after i move down by one, and the
\* other frame is unchanged.
C3_DeleteAt ==
    [][\A s \in Sessions :
         (event'.s = s /\ event'.op \in {"delete_expense", "delete_income"})
           => LET kind == IF event'.op = "delete_expense" THEN "expenses" ELSE "income"
                  other == IF event'.op = "delete_expense" THEN "income" ELSE "expenses"
                  old == sess[s][kind]
                  new == sess'[s][kind]
                  i == event'.arg
              IN /\ 0 <= i /\ i < Len(old)
                 /\ Len(new) = Len(old) - 1
                 /\ \A j \in 0..(Len(old) - 1) :
                      /\ j < i => new[j + 1] = old[j + 1]
                      /\ j > i => new[j] = old[j + 1]
                 /\ sess'[s][other] = sess[s][other]]_vars

C3_Witness ==
    /\ event.op = "delete_expense"
    /\ event.arg = 0
    /\ Len(sess["s1"]["expenses"]) = 1
    /\ sess["s1"]["expenses"][1].amount = 1200
    /\ Len(sess["s1"]["income"]) = 1

\* C4: save_user_data returns True and raises nothing when the write succeeds, when the
\* server is unavailable and when the write fails, and leaves the session state as it was.
C4_SaveNeverRaises ==
    [][event'.op = "save"
         => /\ event'.ret = TRUE
            /\ ~event'.raised
            /\ event'.wrote \in {"written", "skipped", "failed"}
            /\ sess' = sess
            /\ (event'.wrote # "written" => users' = users)]_vars

C4_Witness ==
    /\ event.op = "save"
    /\ event.db = DB
    /\ sess["s1"]["mongodb_available"]
    /\ event.wrote = "failed"
    /\ event.ret = TRUE
    /\ Has(sess["s1"], "expenses")
    /\ Len(sess["s1"]["expenses"]) = 2

\* C5: a written save replaces the whole document with the saving session's aggregate,
\* whatever another session of the same user holds or wrote before: the stored document
\* equals the aggregate of the session that saved last and differs from the aggregate of
\* any session of that user whose aggregate is different.
C5_LastSaveWins ==
    [][\A s \in Sessions, t \in Sessions :
         (event'.s = s /\ event'.op \in MutatingOps /\ event'.wrote = "written"
            /\ t # s /\ LoggedIn(t) /\ sess[t]["user_id"] = sess[s]["user_id"])
           => LET doc == users'[sess'[s]["user_id"]]
              IN /\ IsoAggregate(doc) = IsoAggregate(sess'[s])
                 /\ IsoAggregate(sess'[t]) # IsoAggregate(sess'[s])
                      => IsoAggregate(doc) # IsoAggregate(sess'[t])]_vars

\* both sessions of a new user added one expense; the store holds only the later one
C5_Witness ==
    /\ LoggedIn("s1") /\ LoggedIn("s2")
    /\ sess["s1"]["user_email"] = <<"c", "@", "d">>
    /\ sess["s2"]["user_email"] = <<"c", "@", "d">>
    /\ event.s = "s2" /\ event.op = "add_expense" /\ event.wrote = "written"
    /\ Len(sess["s1"]["expenses"]) = 1
    /\ sess["s1"]["expenses"][1].category = "Food"
    /\ Len(sess["s2"]["expenses"]) = 1
    /\ sess["s2"]["expenses"][1].category = "Shopping"
    /\ Len(Stored("s2").expenses) = 1
    /\ Stored("s2").expenses[1].category = "Shopping"

\* initialize_new_user, line 183: the profile name for the stored email e; None and the
\* empty text are the falsy values
ProfileName(e) == IF e # None /\ e # <<>> THEN split_at_0(e) ELSE <<"U", "s", "e", "r">>

\* C6: a login that reaches the server, reads successfully and finds no document for the key
\* leaves the defaults in the session state (empty frames, default budget and goals, profile
\* derived from the email) and leaves the collection unchanged; no step other than a
\* mutating operation changes the collection.
C6_NewUserLoad ==
    [][/\ \A s \in Sessions :
            (event'.s = s /\ event'.op = "login" /\ event'.email # <<>> /\ event'.up
               /\ ~event'.readFails /\ sess'[s]["user_id"] \notin DOMAIN users)
              => /\ users' = users
                 /\ sess'[s]["expenses"] = <<>>
                 /\ sess'[s]["income"] = <<>>
                 /\ sess'[s]["budget"] = DEFAULT_BUDGET
                 /\ sess'[s]["savings_goals"] = DEFAULT_SAVINGS_GOALS
                 /\ sess'[s]["user_profile"] =
                      [name |-> ProfileName(sess'[s]["user_email"]),
                       email |-> sess'[s]["user_email"],
                       member_since |-> isoformat(event'.now),
                       currency |-> "Rs",
                       language |-> "English"]
       /\ event'.op \notin MutatingOps => users' = users]_vars

C6_Witness ==
    /\ event.op = "login"
    /\ event.email = <<"c", "@", "d">>
    /\ event.up
    /\ ~event.readFails
    /\ hash_email(<<"c", "@", "d">>) \notin DOMAIN users
    /\ sess["s1"]["user_profile"].name = <<"c">>
    /\ sess["s1"]["budget"] = DEFAULT_BUDGET
    /\ sess["s1"]["expenses"] = <<>>

\* C7: load_user_data with no handle or with the availability flag off leaves the collection
\* alone whatever the read would do, keeps a session state that already has the frames as it
\* is, and otherwise creates empty frames, a budget of 8 categories and 2 savings goals.
C7_LoadUnavailable ==
    [][(event'.op = "load" /\ (event'.db = None \/ ~sess["s1"]["mongodb_available"]))
         => /\ users' = users
            /\ IF Has(sess["s1"], "expenses")
               THEN sess' = sess
               ELSE /\ sess'["s1"]["expenses"] = <<>>
                    /\ sess'["s1"]["income"] = <<>>
                    /\ Cardinality(DOMAIN sess'["s1"]["budget"]) = 8
                    /\ Len(sess'["s1"]["savings_goals"]) = 2
                    /\ \A k \in DOMAIN sess["s1"] : sess'["s1"][k] = sess["s1"][k]]_vars

C7_Witness ==
    /\ event.op = "load"
    /\ event.db = None
    /\ event.readFails
    /\ ~event.had
    /\ hash_email(UnitEmail) \in DOMAIN users
    /\ sess["s1"]["expenses"] = <<>>
    /\ Cardinality(DOMAIN sess["s1"]["budget"]) = 8


\* the parts of the session state other than the named frame are unchanged by the step
FrameOthers(s, keys) == \A k \in AggregateKeys \ keys : sess'[s][k] = sess[s][k]

\* C8: the add forms append exactly one row holding the submitted fields at the end of their
\* frame: earlier rows keep their positions, the length grows by one, and the other frame,
\* the budget, the savings goals and the profile are unchanged.
C8_AddAppends ==
    [][\A s \in Sessions :
         /\ (event'.s = s /\ event'.op = "add_expense")
              => LET f == event'.arg
                 IN /\ sess'[s]["expenses"] =
                         Append(sess[s]["expenses"],
                                [date |-> DateObj(f.date), category |-> f.category,
                                 amount |-> f.amount, description |-> f.description])
                    /\ Len(sess'[s]["expenses"]) = Len(sess[s]["expenses"]) + 1
                    /\ FrameOthers(s, {"expenses"})
         /\ (event'.s = s /\ event'.op = "add_income")
              => LET f == event'.arg
                 IN /\ sess'[s]["income"] =
                         Append(sess[s]["income"],
                                [date |-> DateObj(f.date), source |-> f.source,
                                 amount |-> f.amount, frequency |-> f.frequency])
                    /\ Len(sess'[s]["income"]) = Len(sess[s]["income"]) + 1
                    /\ FrameOthers(s, {"income"})]_vars

C8_Witness ==
    /\ event.op = "add_expense"
    /\ event.arg.category = "Shopping"
    /\ Len(sess["s1"]["expenses"]) = 2
    /\ sess["s1"]["expenses"][1].category = "Food"
    /\ sess["s1"]["expenses"][2].category = "Shopping"
    /\ sess["s1"]["expenses"][2].date = DateObj(<<2024, 12, 31>>)
    /\ Len(sess["s1"]["income"]) = 1

\* C9 as stated: Update Profile applies every field of the patch among name, currency and
\* language, and changes neither email nor member_since nor the rest of the aggregate.
C9_PatchApplied ==
    [][\A s \in Sessions :
         (event'.s = s /\ event'.op = "update_profile")
           => /\ \A f \in DOMAIN event'.arg : sess'[s]["user_profile"][f] = event'.arg[f]
              /\ sess'[s]["user_profile"].email = sess[s]["user_profile"].email
              /\ sess'[s]["user_profile"].member_since = sess[s]["user_profile"].member_since
              /\ FrameOthers(s, {"user_profile"})]_vars

\* C9 amended: Update Profile sets the name to the submitted name and changes nothing else:
\* currency, language, email and member_since keep their values, and expenses, income,
\* budget and savings goals are unchanged.
C9_OnlyNameChanges ==
    [][\A s \in Sessions :
         (event'.s = s /\ event'.op = "update_profile")
           => /\ sess'[s]["user_profile"].name =
                   (IF "name" \in DOMAIN event'.arg THEN event'.arg["name"]
                    ELSE sess[s]["user_profile"].name)
              /\ \A f \in {"currency", "language", "email", "member_since"} :
                   sess'[s]["user_profile"][f] = sess[s]["user_profile"][f]
              /\ DOMAIN sess'[s]["user_profile"] = DOMAIN sess[s]["user_profile"]
              /\ FrameOthers(s, {"user_profile"})]_vars

C9_Witness ==
    /\ event.op = "update_profile"
    /\ "currency" \in DOMAIN event.arg
    /\ sess["s1"]["user_profile"].name = <<"Z">>
    /\ sess["s1"]["user_profile"].currency = "Rs"
    /\ sess["s1"]["user_profile"].email = <<"a", "@", "b">>
    /\ Len(sess["s1"]["expenses"]) = 2

\* C10: the budget table has exactly one row per category of the budget and no other row;
\* a category without expenses has Spent = 0, a category with expenses the sum of their
\* amounts, and an expense of a category outside the budget adds no row.
C10_BudgetRows ==
    event.op = "budget_page"
        => LET rows == view.budget_data
               budget == sess["s1"]["budget"]
               expenses == sess["s1"]["expenses"]
           IN /\ {rows[i].Category : i \in 1..Len(rows)} = DOMAIN budget
              /\ Len(rows) = Cardinality(DOMAIN budget)
              /\ \A i \in 1..Len(rows) :
                   /\ rows[i].Budget = budget[rows[i].Category]
                   /\ rows[i].Spent =
                        SumAmount(SelectSeq(expenses, LAMBDA r : r.category = rows[i].Category))

C10_Witness ==
    /\ event.op = "budget_page"
    /\ sess["s1"]["budget"] = [Food |-> 1000]
    /\ Len(sess["s1"]["expenses"]) = 1
    /\ sess["s1"]["expenses"][1].category = "Shopping"
    /\ Len(view.budget_data) = 1
    /\ view.budget_data[1].Category = "Food"
    /\ view.budget_data[1].Spent = 0


\* C11: every row of the budget table has Remaining = Budget - Spent and a usage of
\* Spent / Budget * 100 (0 for a budget of 0); the row is over budget iff the usage is above
\* 100, a warning iff it is above 80 and at most 100, on track otherwise; a budget of
\* Food 1000 with Food expenses of 1200 gives usage 120, over budget, remaining -200.
C11_BudgetArithmetic ==
    event.op = "budget_page"
        => LET rows == view.budget_data
               status == view.status
               food == SumAmount(SelectSeq(sess["s1"]["expenses"], LAMBDA r : r.category = "Food"))
           IN /\ Len(status) = Len(rows)
              /\ \A i \in 1..Len(rows) :
                   LET b == rows[i].Budget
                       sp == rows[i].Spent
                       u == rows[i].Usage
                   IN /\ rows[i].Remaining = b - sp
                      /\ u.den > 0
                      /\ b > 0 => u.num * b = sp * 100 * u.den
                      /\ b = 0 => u.num = 0
                      /\ status[i] = "over-budget" <=> u.num > 100 * u.den
                      /\ status[i] = "warning" <=> (u.num > 80 * u.den /\ u.num <= 100 * u.den)
                      /\ status[i] = "on-track" <=> u.num <= 80 * u.den
              /\ (sess["s1"]["budget"] = [Food |-> 1000] /\ food = 1200)
                   => /\ rows[1].Usage.num = 120 * rows[1].Usage.den
                      /\ status[1] = "over-budget"
                      /\ rows[1].Remaining = 0 - 200

\* a category spent exactly to its budget (usage 100) shows the warning
C11_Witness ==
    /\ event.op = "budget_page"
    /\ sess["s1"]["budget"] = [Food |-> 250]
    /\ Len(sess["s1"]["expenses"]) = 1
    /\ view.budget_data[1].Spent = 250
    /\ view.budget_data[1].Remaining = 0
    /\ view.status[1] = "warning"


\* the weekday of the calendar dates used as inputs
WeekdayOf(iso) == IF iso = "2024-01-05" THEN "Friday" ELSE "Tuesday"

\* the weekly pattern is the seven weekdays in calendar order, each with the sum of the
\* amounts of the expenses dated on it
SevenDays(pattern, expenses) ==
    /\ Len(pattern) = 7
    /\ \A i \in 1..7 :
         /\ pattern[i].day = day_order[i]
         /\ pattern[i].amount =
              SumAmount(SelectSeq(expenses, LAMBDA r : WeekdayOf(IsoCell(r.date)) = day_order[i]))

\* C12 as stated: the analytics page yields the weekly pattern with the seven keys Monday to
\* Sunday in order for every expense frame, the empty one included (seven zeros).
C12_AlwaysSevenDays ==
    event.op = "analytics_page"
        => /\ "weekly_pattern" \in DOMAIN view
           /\ SevenDays(view.weekly_pattern, sess["s1"]["expenses"])

\* C12 amended: for every non-empty expense frame the weekly pattern has the seven keys
\* Monday to Sunday in order, each with the sum of the amounts of the expenses dated on that
\* weekday (0 for a day without expenses); for an empty frame no pattern is computed.
C12_SevenDaysWhenNonEmpty ==
    event.op = "analytics_page"
        => IF Len(sess["s1"]["expenses"]) > 0
           THEN /\ "weekly_pattern" \in DOMAIN view
                /\ SevenDays(view.weekly_pattern, sess["s1"]["expenses"])
           ELSE "weekly_pattern" \notin DOMAIN view

C12_Witness ==
    /\ event.op = "analytics_page"
    /\ Len(sess["s1"]["expenses"]) = 2
    /\ "weekly_pattern" \in DOMAIN view
    /\ view.weekly_pattern[1] = [day |-> "Monday", amount |-> 0]
    /\ view.weekly_pattern[2] = [day |-> "Tuesday", amount |-> 1200]
    /\ view.weekly_pattern[5] = [day |-> "Friday", amount |-> 250]


\* the page functions that only compute derived metrics
MetricOps == {"budget_page", "analytics_page"}

\* C13 as stated: a derived-metrics computation has no side effects; after it runs the
\* session's expense and income frames, the representation of their dates included, are
\* what they were before the call.
C13_MetricsPure ==
    [][event'.op \in MetricOps
         => /\ sess'["s1"]["expenses"] = sess["s1"]["expenses"]
            /\ sess'["s1"]["income"] = sess["s1"]["income"]]_vars


\* the key a login with the email text e leaves in a fresh session
KeyOf(e) == login_click(auth_init(<<>>), e)["user_id"]

\* C14: the user_id a login stores is the key of every email text with the same lower-cased,
\* trimmed form and of no other: two emails get the same key iff those forms are equal, and
\* the stored user_email is that form.
C14_SameKeyIffSameForm ==
    (event.op = "login" /\ event.email # <<>>)
        => /\ sess[event.s]["user_email"] = strip(lower(event.email))
           /\ \A e2 \in EmailInputs \ {<<>>} :
                (KeyOf(e2) = sess[event.s]["user_id"])
                    <=> (strip(lower(e2)) = strip(lower(event.email)))
           /\ (event.email = <<" ", "A", "@", "b">>)
                => sess[event.s]["user_id"] = hash_email(<<"a", "@", "b">>)

C14_Witness ==
    /\ event.op = "login"
    /\ event.email = <<" ", "A", "@", "b">>
    /\ event.up /\ ~event.readFails
    /\ sess["s1"]["user_id"] = KeyOf(<<"a", "@", "b">>)
    /\ sess["s1"]["user_id"] \in DOMAIN users
    /\ Len(sess["s1"]["expenses"]) = 2


DeleteOps == {"delete_expense", "delete_income"}

\* the rows of one frame of a stored document
RowsOf(doc, key) == {doc[key][j] : j \in 1..Len(doc[key])}

\* C15 as stated: with one session, every expense and income row of a stored document is still
\* in that stored document after any step that is not a delete by the user, whatever the
\* availability of the store during the session's script runs.
C15_StoredRecordsStay ==
    [][event'.op \notin DeleteOps
         => \A uid \in DOMAIN users :
              /\ uid \in DOMAIN users'
              /\ RowsOf(users[uid], "expenses") \subseteq RowsOf(users'[uid], "expenses")
              /\ RowsOf(users[uid], "income") \subseteq RowsOf(users'[uid], "income")]_vars


\* what initialize_new_user leaves for the email e on the day now
FreshAggregate(e, now) ==
    [expenses |-> <<>>,
     income |-> <<>>,
     budget |-> DEFAULT_BUDGET,
     savings_goals |-> DEFAULT_SAVINGS_GOALS,
     user_profile |-> [name |-> ProfileName(e), email |-> e, member_since |-> isoformat(now),
                       currency |-> "Rs", language |-> "English"]]

\* C16: a logout leaves no aggregate part and no data_loaded mark in the session, and the
\* login that follows fills the aggregate from the stored document of the new key when the
\* store is reached and has one, and from the defaults for the new email otherwise: nothing
\* of the user logged in before remains.
C16_LoginStartsClean ==
    [][/\ event'.op = "logout"
            => /\ DOMAIN sess'[event'.s] \cap (AggregateKeys \cup {"data_loaded"}) = {}
               /\ sess'[event'.s]["user_email"] = None
               /\ sess'[event'.s]["user_id"] = None
       /\ (event'.op = "login" /\ event'.email # <<>>)
            => LET s == event'.s
                   key == hash_email(strip(lower(event'.email)))
               IN /\ sess'[s]["user_id"] = key
                  /\ IF event'.up /\ ~event'.readFails /\ key \in DOMAIN users
                     THEN IsoAggregate(sess'[s]) = IsoAggregate(users[key])
                     ELSE IsoAggregate(sess'[s]) = FreshAggregate(strip(lower(event'.email)), event'.now)]_vars

\* c@d logs in with the store down after a@b, whose session saved one expense, logged out
C16_Witness ==
    /\ event.op = "login"
    /\ event.email = <<"c", "@", "d">>
    /\ ~event.up
    /\ hash_email(<<"a", "@", "b">>) \in DOMAIN users
    /\ Len(users[hash_email(<<"a", "@", "b">>)].expenses) = 1
    /\ sess["s1"]["expenses"] = <<>>
    /\ sess["s1"]["user_profile"].email = <<"c", "@", "d">>

====
